---- MODULE Spec2Model ----
(***************************************************************************)
(* A model of sqldiff (src/sqldiff.py): the column, table and schema       *)
(* parsers and the diff engine.  Text is modelled character by character:  *)
(* a Python str is a sequence of one-character strings, so that strip,     *)
(* split, substring tests, int() and the % formatting are computed the way *)
(* the code computes them.  Python semantics are those of Python 3.        *)
(***************************************************************************)
EXTENDS Integers, Sequences, FiniteSets, TLC

VARIABLES
    \* Column.parse / Column.__eq__ exercised directly (as src/test.py does)
    lineA, lineB,       \* the two column definition lines handed to Column.parse
    colA, colB,         \* the outcome of Column.parse on each line
    cmp,                \* the outcomes of ==  on the two columns
    cpc,                \* position: "start" -> "parsed" -> "compared"
    \* Table.parse, one loop iteration at a time
    block,              \* the text handed to Table.parse
    lines,              \* sql.split('\n')
    pos,                \* index of the next line of the for loop
    table,              \* the Table under construction (name, columns, keys)
    tpc,                \* "call" -> "loop" -> "check" -> "returned" | "raised"
    texc,               \* the exception Table.parse raised ("none" if none)
    \* main(): Schema.parse twice, then one output mode
    srcText, dstText,   \* contents of <source.sql> and <destination.sql>
    opts,               \* [drop |-> BOOLEAN, alter |-> BOOLEAN]
    src, dst,           \* outcomes of Schema.parse (schemaA, schemaB)
    grid,               \* what the texttables writer received
    stdout,             \* the lines print() wrote
    pc                  \* position in main

vars == <<lineA, lineB, colA, colB, cmp, cpc,
          block, lines, pos, table, tpc, texc,
          srcText, dstText, opts, src, dst, grid, stdout, pc>>

colVars  == <<lineA, lineB, colA, colB, cmp, cpc>>
tabVars  == <<block, lines, pos, table, tpc, texc>>
mainVars == <<srcText, dstText, opts, src, dst, grid, stdout, pc>>

----------------------------------------------------------------------------
(* Python values *)

\* The backquote character.  A TLA+ string cannot hold one, so the atom "bq"
\* stands for it wherever the source has one.
BQ == "bq"

None    == <<>>
Some(x) == <<x>>

\* Let(v, F) is F(v), with v evaluated once whatever the number of times F
\* uses it
Only(S) == CHOOSE x \in S : TRUE
Let(v, F(_)) == Only({F(x) : x \in {v}})

Min(M) == CHOOSE i \in M : \A j \in M : i <= j
Max(M) == CHOOSE i \in M : \A j \in M : i >= j

(* Python str operations, on sequences of characters *)

Whitespace == {" ", "\t", "\n", "\r"}
DigitChars == <<"0", "1", "2", "3", "4", "5", "6", "7", "8", "9">>
LowerChars == <<"a", "b", "c", "d", "e", "f", "g", "h", "i", "j", "k", "l", "m",
                "n", "o", "p", "q", "r", "s", "t", "u", "v", "w", "x", "y", "z">>
UpperChars == <<"A", "B", "C", "D", "E", "F", "G", "H", "I", "J", "K", "L", "M",
                "N", "O", "P", "Q", "R", "S", "T", "U", "V", "W", "X", "Y", "Z">>
Digits     == {DigitChars[i] : i \in DOMAIN DigitChars}
Lowers     == {LowerChars[i] : i \in DOMAIN LowerChars}
Uppers     == {UpperChars[i] : i \in DOMAIN UpperChars}

\* \w of the re module, on the characters of the model
IsWordChar(c) == c \in Digits \cup Lowers \cup Uppers \cup {"_"}

\* the index of the first character of s outside cs (Len(s) + 1 if none), and
\* of the last one (0 if none)
FirstNotIn(s, cs) ==
    Let({i \in DOMAIN s : s[i] \notin cs}, LAMBDA M : IF M = {} THEN Len(s) + 1 ELSE Min(M))
LastNotIn(s, cs) ==
    Let({i \in DOMAIN s : s[i] \notin cs}, LAMBDA M : IF M = {} THEN 0 ELSE Max(M))
\* the index of the first character of s in cs (Len(s) + 1 if none)
FirstIn(s, cs) ==
    Let({i \in DOMAIN s : s[i] \in cs}, LAMBDA M : IF M = {} THEN Len(s) + 1 ELSE Min(M))

\* s.strip(cs)
Strip(s0, cs) == Let(s0, LAMBDA s : SubSeq(s, FirstNotIn(s, cs), LastNotIn(s, cs)))

\* s.lstrip(cs)
LStrip(s0, cs) == Let(s0, LAMBDA s : SubSeq(s, FirstNotIn(s, cs), Len(s)))

\* the indices at which sub occurs in s
Occurrences(s, sub) ==
    {i \in 1..(Len(s) - Len(sub) + 1) : SubSeq(s, i, i + Len(sub) - 1) = sub}

\* sub in s
Contains(s0, sub) == Let(s0, LAMBDA s : Occurrences(s, sub) # {})

\* s.startswith(p)
StartsWith(s0, p) == Let(s0, LAMBDA s : Len(s) >= Len(p) /\ SubSeq(s, 1, Len(p)) = p)

\* s.find(sub) + 1: the first index at which sub occurs in s (0 if none)
Find(s0, sub) ==
    Let(s0, LAMBDA s :
        Let(Occurrences(s, sub), LAMBDA M : IF M = {} THEN 0 ELSE Min(M)))

\* s.split(sep) for a non-empty separator; also re.split of a literal pattern
RECURSIVE Split(_, _)
Split(s0, sep) ==
    Let(s0, LAMBDA s :
        Let(Find(s, sep), LAMBDA i :
            IF i = 0 THEN <<s>>
            ELSE <<SubSeq(s, 1, i - 1)>> \o Split(SubSeq(s, i + Len(sep), Len(s)), sep)))

\* s.split(): the maximal runs of non-whitespace characters
RECURSIVE SplitWs(_)
SplitWs(s0) ==
    Let(LStrip(s0, Whitespace), LAMBDA t :
        IF t = <<>> THEN <<>>
        ELSE Let(FirstIn(t, Whitespace), LAMBDA k :
                <<SubSeq(t, 1, k - 1)>> \o SplitWs(SubSeq(t, k, Len(t)))))

\* s.upper()
UpperChar(c) ==
    IF c \in Lowers
    THEN UpperChars[CHOOSE i \in DOMAIN LowerChars : LowerChars[i] = c]
    ELSE c
Upper(s0) == Let(s0, LAMBDA s : [i \in DOMAIN s |-> UpperChar(s[i])])

\* int(s) accepts: optional surrounding whitespace, an optional sign, digits
\* with single underscores between them
IntSigned(s) == Strip(s, Whitespace)
IntBody(t) == IF t # <<>> /\ t[1] \in {"+", "-"} THEN Tail(t) ELSE t
IntOk(s) ==
    Let(IntBody(IntSigned(s)), LAMBDA b :
        /\ b # <<>>
        /\ \A i \in DOMAIN b : b[i] \in Digits \/ b[i] = "_"
        /\ b[1] \in Digits /\ b[Len(b)] \in Digits
        /\ \A i \in 1..(Len(b) - 1) : ~(b[i] = "_" /\ b[i + 1] = "_"))
DigitVal(c) == (CHOOSE i \in DOMAIN DigitChars : DigitChars[i] = c) - 1
RECURSIVE DigitsVal(_)
DigitsVal(d0) ==
    Let(d0, LAMBDA d :
        IF d = <<>> THEN 0
        ELSE 10 * DigitsVal(SubSeq(d, 1, Len(d) - 1)) + DigitVal(d[Len(d)]))
IntVal(s) ==
    Let(IntSigned(s), LAMBDA t :
        Let(DigitsVal(SelectSeq(IntBody(t), LAMBDA c : c # "_")), LAMBDA v :
            IF t[1] = "-" THEN 0 - v ELSE v))

----------------------------------------------------------------------------
(* String constants of the source *)

NOT_NULL       == <<"N", "O", "T", " ", "N", "U", "L", "L">>
AUTO_INCREMENT == <<"A", "U", "T", "O", "_", "I", "N", "C", "R", "E", "M", "E", "N", "T">>
KEY            == <<"K", "E", "Y">>
DATETIME       == <<"d", "a", "t", "e", "t", "i", "m", "e">>
CREATE_TABLE   == <<"C", "R", "E", "A", "T", "E", " ", "T", "A", "B", "L", "E", " ", BQ>>
OPEN_PAREN     == <<BQ, " ", "(">>

----------------------------------------------------------------------------
(* Column *)

Raised(e)   == [exc |-> e, val |-> None]
Returned(v) == [exc |-> "none", val |-> v]

\* the Column that Column.parse returns: Column.__init__ and the assignments
MakeColumn(sql, name, type, length, precision, auto) ==
    [sql |-> sql, name |-> Some(name), type |-> Some(type), length |-> length,
     precision |-> precision, auto |-> auto,
     nullable |-> Some(~Contains(sql, NOT_NULL))]

\* (mutant) the loop starts at the type token: for part in parts[1:]
HasAutoIncrementFromType(parts) == \E i \in 2..Len(parts) : parts[i] = AUTO_INCREMENT

\* the for loop over parts[2:]
HasAutoIncrement(parts) == \E i \in 3..Len(parts) : parts[i] = AUTO_INCREMENT

\* the body of  if '(' in col.type:  the type, length and precision it assigns
SizedType(typ) ==
    Let(Split(Strip(typ, {")"}), <<"(">>), LAMBDA sp :
        IF Len(sp) # 2 THEN Raised("ValueError")        \* unpacking
        ELSE IF Contains(sp[2], <<",">>)
        THEN Let(Split(sp[2], <<",">>), LAMBDA lp :
                IF Len(lp) # 2 THEN Raised("ValueError")   \* unpacking
                ELSE IF ~IntOk(lp[2]) THEN Raised("ValueError")
                ELSE IF ~IntOk(lp[1]) THEN Raised("ValueError")
                ELSE Returned([type |-> sp[1], length |-> Some(IntVal(lp[1])),
                               precision |-> Some(IntVal(lp[2]))]))
        ELSE IF ~IntOk(sp[2]) THEN Raised("ValueError")
        ELSE Returned([type |-> sp[1], length |-> Some(IntVal(sp[2])),
                       precision |-> None]))

\* Column.parse
ColumnParse(sql0) ==
    Let(sql0, LAMBDA sql :
    Let(SplitWs(Strip(sql, {" ", ","})), LAMBDA parts :
        IF Len(parts) < 1 THEN Raised("IndexError")         \* parts[0]
        ELSE IF Len(parts) < 2 THEN Raised("IndexError")    \* parts[1]
        ELSE IF Contains(parts[2], <<"(">>)
        THEN Let(SizedType(parts[2]), LAMBDA r :
                IF r.exc # "none" THEN r
                ELSE Returned(MakeColumn(sql, Strip(parts[1], {BQ}), r.val.type,
                                         r.val.length, r.val.precision,
                                         HasAutoIncrement(parts))))
        ELSE Returned(MakeColumn(sql, Strip(parts[1], {BQ}), parts[2], None, None,
                                 HasAutoIncrement(parts)))))

\* (mutant) the length is compared whatever the type
ColumnEqAnyType(self, right) ==
    /\ self.name = right.name
    /\ self.type = right.type
    /\ self.length = right.length
    /\ self.precision = right.precision
    /\ self.auto = right.auto
    /\ self.nullable = right.nullable

\* Column.__eq__ (self == right)
ColumnEq(self, right) ==
    /\ self.name = right.name
    /\ self.type = right.type
    /\ (IF self.type = Some(DATETIME) THEN None ELSE self.length)
        = (IF self.type = Some(DATETIME) THEN None ELSE right.length)
    /\ self.precision = right.precision
    /\ self.auto = right.auto
    /\ self.nullable = right.nullable

\* (mutant) no __ne__ derived from __eq__: two distinct objects are unequal
ColumnNeIdentity(self, right) == TRUE

\* self != right: Python 3 derives __ne__ from __eq__
ColumnNe(self, right) == ~ColumnEq(self, right)

----------------------------------------------------------------------------
(* Column.parse and Column.__eq__ on their own, as src/test.py calls them *)

ColumnNameTokens == { <<BQ, "a", BQ>>, <<BQ, "b", BQ>> }

TypeTokens ==
    { <<"i", "n", "t", "(", "1", "1", ")">>,
      <<"i", "n", "t", "(", "5", ")">>,
      <<"d", "e", "c", "i", "m", "a", "l", "(", "5", ",", "2", ")">>,
      <<"t", "e", "x", "t">>,
      <<"d", "a", "t", "e", "t", "i", "m", "e", "(", "6", ")">>,
      <<"d", "a", "t", "e", "t", "i", "m", "e", "(", "3", ")">>,
      <<"i", "n", "t", "(", "x", ")">>,
      <<"e", "n", "u", "m", "(", "1", ",", "2", ",", "3", ")">>,
      AUTO_INCREMENT }

Trailers ==
    { <<>>,
      <<" ", "N", "O", "T", " ", "N", "U", "L", "L">>,
      <<" ", "N", "O", "T", " ", "N", "U", "L", "L", " ", "A", "U", "T", "O", "_",
        "I", "N", "C", "R", "E", "M", "E", "N", "T", ",">>,
      <<" ", "u", "n", "s", "i", "g", "n", "e", "d", " ", "D", "E", "F", "A", "U",
        "L", "T", " ", "N", "U", "L", "L">> }

\* the column definition lines the model feeds to Column.parse: the shapes of
\* src/test.py (COLS), a datetime with and without size, a one-token line and
\* two lines whose size is not integer(s)
ColumnLines ==
    { n \o <<" ">> \o t \o r : n \in ColumnNameTokens, t \in TypeTokens, r \in Trailers }
    \cup ColumnNameTokens

InitColumn ==
    /\ lineA \in ColumnLines
    /\ lineB \in ColumnLines
    /\ colA = None /\ colB = None /\ cmp = None
    /\ cpc = "start"

\* col = Column.parse(sql) on the first line
ColumnParseA ==
    /\ cpc = "start"
    /\ colA' = ColumnParse(lineA)
    /\ cpc' = "parsedA"
    /\ UNCHANGED <<lineA, lineB, colB, cmp>>

\* col = Column.parse(sql) on the second line
ColumnParseB ==
    /\ cpc = "parsedA"
    /\ colB' = ColumnParse(lineB)
    /\ cpc' = "parsed"
    /\ UNCHANGED <<lineA, lineB, colA, cmp>>

\* a == b, b == a, a == a and b == b on the two parsed columns
ColumnCompare ==
    /\ cpc = "parsed"
    /\ colA.exc = "none" /\ colB.exc = "none"
    /\ cmp' = [ab |-> ColumnEq(colA.val, colB.val),
               ba |-> ColumnEq(colB.val, colA.val),
               aa |-> ColumnEq(colA.val, colA.val),
               bb |-> ColumnEq(colB.val, colB.val)]
    /\ cpc' = "compared"
    /\ UNCHANGED <<lineA, lineB, colA, colB>>

----------------------------------------------------------------------------
(* Key, Table *)

\* a dict: a function from keys to values
EmptyDict == [k \in {} |-> None]
\* d[k] = v
Put(d0, k, v0) ==
    Let(d0, LAMBDA d : Let(v0, LAMBDA v :
        [x \in (DOMAIN d) \cup {k} |-> IF x = k THEN v ELSE d[x]]))

\* Key.parse: the name stays None
KeyParse(sql) == [sql |-> sql, name |-> None]

\* Table.__init__
NewTable(sql) == [sql |-> sql, name |-> None, columns |-> EmptyDict, keys |-> EmptyDict]

\* PAT_TABLE_NAME.match(line): ^CREATE TABLE BQ(\w+)BQ \($
HeaderMatch(line) ==
    /\ Len(line) >= Len(CREATE_TABLE) + 1 + Len(OPEN_PAREN)
    /\ SubSeq(line, 1, Len(CREATE_TABLE)) = CREATE_TABLE
    /\ SubSeq(line, Len(line) - Len(OPEN_PAREN) + 1, Len(line)) = OPEN_PAREN
    /\ \A i \in (Len(CREATE_TABLE) + 1)..(Len(line) - Len(OPEN_PAREN)) : IsWordChar(line[i])
\* m.group(1)
HeaderName(line) == SubSeq(line, Len(CREATE_TABLE) + 1, Len(line) - Len(OPEN_PAREN))

\* (mutant) the KEY test comes before the backquote test
LineClassKeyFirst(line) ==
    IF HeaderMatch(line) THEN "header"
    ELSE IF Contains(line, KEY) THEN "key"
    ELSE IF StartsWith(line, <<BQ>>) THEN "column"
    ELSE IF StartsWith(line, <<")">>) THEN "closing"
    ELSE "other"

\* the if / elif chain of Table.parse, on the stripped line
LineClass(line) ==
    IF HeaderMatch(line) THEN "header"
    ELSE IF StartsWith(line, <<BQ>>) THEN "column"
    ELSE IF Contains(line, KEY) THEN "key"
    ELSE IF StartsWith(line, <<")">>) THEN "closing"
    ELSE "other"

\* Table.add_column
AddColumn(t, line) ==
    Let(ColumnParse(line), LAMBDA r :
        IF r.exc # "none" THEN Raised(r.exc)
        ELSE Returned([t EXCEPT !.columns = Put(t.columns, r.val.name[1], r.val)]))

\* Table.add_key
AddKey(t, line) ==
    Let(KeyParse(line), LAMBDA key : [t EXCEPT !.keys = Put(t.keys, key.name, key)])

\* one iteration of the for loop of Table.parse: the outcome (exc, the table)
\* and whether the loop is left by break
TableLine(t, rawLine) ==
    Let(Strip(rawLine, {" ", ","}), LAMBDA line :
    Let(LineClass(line), LAMBDA cls :
        IF cls = "header"
        THEN [exc |-> "none", val |-> [t EXCEPT !.name = Some(HeaderName(line))], brk |-> FALSE]
        ELSE IF cls = "column"
        THEN Let(AddColumn(t, line), LAMBDA r :
                [exc |-> r.exc, val |-> IF r.exc = "none" THEN r.val ELSE t, brk |-> FALSE])
        ELSE IF cls = "key"
        THEN [exc |-> "none", val |-> AddKey(t, line), brk |-> FALSE]
        ELSE IF cls = "closing"
        THEN [exc |-> "none", val |-> t, brk |-> TRUE]
        ELSE [exc |-> "none", val |-> t, brk |-> FALSE]))

\* the for loop of Table.parse from line i on
RECURSIVE TableLoop(_, _, _)
TableLoop(t0, ls, i) ==
    IF i > Len(ls) THEN Returned(t0)
    ELSE Let(t0, LAMBDA t :
         Let(TableLine(t, ls[i]), LAMBDA r :
            IF r.exc # "none" THEN Raised(r.exc)
            ELSE IF r.brk THEN Returned(r.val)
            ELSE TableLoop(r.val, ls, i + 1)))

\* the check after the loop: if not table.name: raise ValueError
TableCheck(t) ==
    IF t.name = None \/ t.name = Some(<<>>) THEN Raised("ValueError") ELSE Returned(t)

\* Table.parse
TableParse(sql0) ==
    Let(sql0, LAMBDA sql :
    Let(Split(sql, <<"\n">>), LAMBDA ls :
    Let(TableLoop(NewTable(sql), ls, 1), LAMBDA r :
        IF r.exc # "none" THEN r ELSE TableCheck(r.val))))

----------------------------------------------------------------------------
(* Schema *)

\* Schema.__init__ (db and version, which only the grid's header row shows,
\* are left out)
NewSchema(sql, name) == [sql |-> sql, name |-> name, tables |-> EmptyDict]

\* Schema.add
SchemaAdd(schema, sql) ==
    Let(TableParse(sql), LAMBDA r :
        IF r.exc # "none" THEN Raised(r.exc)
        ELSE Returned([schema EXCEPT !.tables = Put(schema.tables, r.val.name[1], r.val)]))

\* (mutant) except ValueError: break
RECURSIVE SchemaLoopBreak(_, _, _)
SchemaLoopBreak(schema0, blocks, i) ==
    IF i > Len(blocks) THEN Returned(schema0)
    ELSE Let(schema0, LAMBDA schema :
         Let(SchemaAdd(schema, blocks[i]), LAMBDA r :
            IF r.exc = "ValueError" THEN Returned(schema)
            ELSE IF r.exc # "none" THEN Raised(r.exc)
            ELSE SchemaLoopBreak(r.val, blocks, i + 1)))

\* the for loop of Schema.parse over the blocks: except ValueError: continue
RECURSIVE SchemaLoop(_, _, _)
SchemaLoop(schema0, blocks, i) ==
    IF i > Len(blocks) THEN Returned(schema0)
    ELSE Let(schema0, LAMBDA schema :
         Let(SchemaAdd(schema, blocks[i]), LAMBDA r :
            IF r.exc = "ValueError" THEN SchemaLoop(schema, blocks, i + 1)
            ELSE IF r.exc # "none" THEN Raised(r.exc)
            ELSE SchemaLoop(r.val, blocks, i + 1)))

\* PAT_TABLE_SPLIT.split(sql)
TableSplit(sql) == Split(sql, <<"\n", "\n">>)

\* Schema.parse, on the text of the file and its path
SchemaParse(sql0, path) ==
    Let(sql0, LAMBDA sql :
    Let(TableSplit(sql), LAMBDA blocks : SchemaLoop(NewSchema(sql, path), blocks, 1)))

\* Schema.names, Table.names
Names(d) == DOMAIN d

----------------------------------------------------------------------------
(* Differences *)

\* The enumerations of a set: the orders in which a Python set may be iterated
Orders(S) ==
    {f \in [1..Cardinality(S) -> S] : \A i, j \in 1..Cardinality(S) : f[i] = f[j] => i = j}

\* for each key of ks, one enumeration of setOf(k)
OrdersBy(ks, setOf(_)) ==
    {f \in [ks -> UNION {Orders(setOf(k)) : k \in ks}] : \A k \in ks : f[k] \in Orders(setOf(k))}

\* the concatenation of the sequences qs[1], qs[2], ...
RECURSIVE Concat(_)
Concat(qs0) ==
    Let(qs0, LAMBDA qs : IF qs = <<>> THEN <<>> ELSE Head(qs) \o Concat(Tail(qs)))
\* the concatenation of f(q[1]), f(q[2]), ...
ConcatMap(q, f(_)) == Concat([i \in DOMAIN q |-> f(q[i])])

\* format_table
format_table(name) == <<"-", "-", "-", "-", " ">> \o Upper(name) \o <<" ", "-", "-", "-", "-">>

\* (mutant) the values are compared field by field, the text included
DictEqText(a, b) == a = b

\* dict == dict: the same keys, and equal values under Column.__eq__
DictEq(a, b) == DOMAIN a = DOMAIN b /\ \A k \in DOMAIN a : ColumnEq(a[k], b[k])

\* 'DROP TABLE BQ%sBQ;' % m_dst
DropTableStmt(name) ==
    <<"D", "R", "O", "P", " ", "T", "A", "B", "L", "E", " ", BQ>> \o name \o <<BQ, ";">>

\* (mutant) src_tables.difference(dst_tables)
DropTableSetOfSource(s, d) == Names(s.tables) \ Names(d.tables)

\* the tables Differences.sql_drop_tables iterates over
DropTableSet(s, d) == Names(d.tables) \ Names(s.tables)

\* Differences.sql_drop_tables: the lines printed, the set iterated in order ord
SqlDropTables(s, d, ord) == [i \in DOMAIN ord |-> DropTableStmt(ord[i])]

ALTER_TABLE == <<"A", "L", "T", "E", "R", " ", "T", "A", "B", "L", "E", " ", BQ>>
\* 'ALTER TABLE BQ%sBQ ADD COLUMN %s;'
AddColumnStmt(tname, colsql) ==
    ALTER_TABLE \o tname \o <<BQ, " ", "A", "D", "D", " ", "C", "O", "L", "U", "M", "N", " ">>
        \o colsql \o <<";">>
\* 'ALTER TABLE BQ%sBQ DROP COLUMN BQ%sBQ;'
DropColumnStmt(tname, col) ==
    ALTER_TABLE \o tname
        \o <<BQ, " ", "D", "R", "O", "P", " ", "C", "O", "L", "U", "M", "N", " ", BQ>>
        \o col \o <<BQ, ";">>
\* 'ALTER TABLE BQ%sBQ MODIFY COLUMN %s;'
ModifyColumnStmt(tname, colsql) ==
    ALTER_TABLE \o tname
        \o <<BQ, " ", "M", "O", "D", "I", "F", "Y", " ", "C", "O", "L", "U", "M", "N", " ">>
        \o colsql \o <<";">>

\* (mutant) MODIFY COLUMN prints the text of the destination's column
AlterColumnDstText(src_table, dst_table, col) ==
    IF col \in Names(src_table.columns) /\ col \notin Names(dst_table.columns)
    THEN <<AddColumnStmt(dst_table.name[1], src_table.columns[col].sql)>>
    ELSE IF col \in Names(dst_table.columns) /\ col \notin Names(src_table.columns)
    THEN <<DropColumnStmt(dst_table.name[1], col)>>
    ELSE IF ColumnNe(src_table.columns[col], dst_table.columns[col])
    THEN <<ModifyColumnStmt(dst_table.name[1], dst_table.columns[col].sql)>>
    ELSE <<>>

\* the body of the inner loop of Differences.sql_alter_tables: the lines printed
\* for column col
AlterColumn(src_table, dst_table, col) ==
    IF col \in Names(src_table.columns) /\ col \notin Names(dst_table.columns)
    THEN <<AddColumnStmt(dst_table.name[1], src_table.columns[col].sql)>>
    ELSE IF col \in Names(dst_table.columns) /\ col \notin Names(src_table.columns)
    THEN <<DropColumnStmt(dst_table.name[1], col)>>
    ELSE IF ColumnNe(src_table.columns[col], dst_table.columns[col])
    THEN <<ModifyColumnStmt(dst_table.name[1], src_table.columns[col].sql)>>
    ELSE <<>>

\* the sets the loops of sql_alter_tables and print_columns iterate over
BothTables(s, d) == Names(s.tables) \cap Names(d.tables)
ColumnUnion(s, d, t) == Names(s.tables[t].columns) \cup Names(d.tables[t].columns)

\* Differences.sql_alter_tables: the lines printed, the tables iterated in order
\* tord and the columns of table t in order cords[t]
SqlAlterTables(s, d, tord, cords) ==
    LET OneTable(t) ==
            LET OneColumn(col) == AlterColumn(s.tables[t], d.tables[t], col)
            IN  ConcatMap(cords[t], OneColumn)
    IN  ConcatMap(tord, OneTable)

\* the body of the loop of Differences.print_columns: the rows written for col
ColumnRow(src_table, dst_table, col) ==
    IF col \in Names(src_table.columns) /\ col \notin Names(dst_table.columns)
    THEN << <<src_table.columns[col].sql, <<>> >> >>
    ELSE IF col \in Names(dst_table.columns) /\ col \notin Names(src_table.columns)
    THEN << << <<>>, dst_table.columns[col].sql>> >>
    ELSE IF ColumnNe(src_table.columns[col], dst_table.columns[col])
    THEN << <<src_table.columns[col].sql, dst_table.columns[col].sql>> >>
    ELSE <<>>

\* Differences.print_columns: the rows written, the columns iterated in order cord
PrintColumns(src_table, dst_table, cord) ==
    IF DictEq(src_table.columns, dst_table.columns) THEN <<>>
    ELSE LET OneColumn(col) == ColumnRow(src_table, dst_table, col)
         IN  << <<format_table(src_table.name[1]), format_table(dst_table.name[1])>> >>
                \o ConcatMap(cord, OneColumn)

\* the set the loop of print_tables iterates over
TableUnion(s, d) == Names(s.tables) \cup Names(d.tables)

\* the body of the loop of Differences.print_tables: the rows written for table
TableRows(s, d, t, cords) ==
    IF t \in Names(s.tables) /\ t \notin Names(d.tables)
    THEN << << <<>>, format_table(t)>> >>
    ELSE IF t \in Names(d.tables) /\ t \notin Names(s.tables)
    THEN << <<format_table(t), <<>> >> >>
    ELSE PrintColumns(s.tables[t], d.tables[t], cords[t])

\* Differences.print_tables: the rows written after the header
PrintTables(s, d, tord, cords) ==
    LET OneTable(t) == TableRows(s, d, t, cords)
    IN  ConcatMap(tord, OneTable)

----------------------------------------------------------------------------
(* Input text *)

MaxBlockLines == 4
MaxDumpLines  == 4
MaxBlocks     == 2

\* the sequences over S of length at most n
SeqsUpTo(S, n) == UNION {[1..k -> S] : k \in 0..n}

\* sep.join(ls)
RECURSIVE Join(_, _)
Join(ls0, sep) ==
    Let(ls0, LAMBDA ls :
        IF ls = <<>> THEN <<>>
        ELSE IF Len(ls) = 1 THEN ls[1]
        ELSE ls[1] \o sep \o Join(Tail(ls), sep))

HEADER_T   == <<"C", "R", "E", "A", "T", "E", " ", "T", "A", "B", "L", "E", " ", BQ, "t", BQ, " ", "(">>
HEADER_U   == <<"C", "R", "E", "A", "T", "E", " ", "T", "A", "B", "L", "E", " ", BQ, "u", BQ, " ", "(">>
HEADER_KEY == <<"C", "R", "E", "A", "T", "E", " ", "T", "A", "B", "L", "E", " ", BQ, "K", "E", "Y", BQ, " ", "(">>
COL_A_INT11 == <<" ", " ", BQ, "a", BQ, " ", "i", "n", "t", "(", "1", "1", ")", " ", "N", "O", "T", " ", "N", "U", "L", "L", ",">>
COL_A_INT5  == <<" ", " ", BQ, "a", BQ, " ", "i", "n", "t", "(", "5", ")", " ", "N", "O", "T", " ", "N", "U", "L", "L", ",">>
COL_A_TEXT  == <<" ", " ", BQ, "a", BQ, " ", "t", "e", "x", "t", ",">>
COL_B_TEXT  == <<" ", " ", BQ, "b", BQ, " ", "t", "e", "x", "t", ",">>
COL_C_TEXT  == <<" ", " ", BQ, "c", BQ, " ", "t", "e", "x", "t", ",">>
COL_D_DT6   == <<" ", " ", BQ, "d", BQ, " ", "d", "a", "t", "e", "t", "i", "m", "e", "(", "6", ")">>
COL_D_DT3   == <<" ", " ", BQ, "d", BQ, " ", "d", "a", "t", "e", "t", "i", "m", "e", "(", "3", ")">>
COL_KEY_INT == <<" ", " ", BQ, "K", "E", "Y", BQ, " ", "i", "n", "t", "(", "5", ")", ",">>
COL_A_INTX  == <<" ", " ", BQ, "a", BQ, " ", "i", "n", "t", "(", "x", ")", ",">>
COL_B_ALONE == <<" ", " ", BQ, "b", BQ>>
CLOSING     == <<")", " ", "E", "N", "G", "I", "N", "E", "=", "x", ";">>
CLOSING_KEY == <<")", " ", "K", "E", "Y">>

SOURCE_SQL      == <<"a", ".", "s", "q", "l">>
DESTINATION_SQL == <<"b", ".", "s", "q", "l">>

\* the lines of the blocks handed to Table.parse on its own
TableLines ==
    { HEADER_T, HEADER_KEY, COL_A_INT5, COL_A_TEXT, COL_KEY_INT, CLOSING,
      CLOSING_KEY }
TableBlocks == { Join(ls, <<"\n">>) : ls \in SeqsUpTo(TableLines, MaxBlockLines) }

\* the lines of the dumps handed to Schema.parse on its own; an empty line
\* next to another line makes a block boundary
DumpLines ==
    { HEADER_T, HEADER_U, COL_A_INT5, COL_A_INTX, COL_B_ALONE, CLOSING, <<>> }
LineDumps == { Join(ls, <<"\n">>) : ls \in SeqsUpTo(DumpLines, MaxDumpLines) }

\* the blocks of the dumps handed to main: two versions of table t (column a
\* resized, b against c, d a datetime of another size) and two of table u
\* (d a datetime of another size)
BLOCK_T1 == Join(<<HEADER_T, COL_A_INT11, COL_B_TEXT, COL_D_DT6, CLOSING>>, <<"\n">>)
BLOCK_T2 == Join(<<HEADER_T, COL_A_INT5, COL_C_TEXT, COL_D_DT3, CLOSING>>, <<"\n">>)
BLOCK_U1 == Join(<<HEADER_U, COL_D_DT6, CLOSING>>, <<"\n">>)
BLOCK_U2 == Join(<<HEADER_U, COL_D_DT3, CLOSING>>, <<"\n">>)
SourceBlocks      == {BLOCK_T1, BLOCK_U1}
DestinationBlocks == {BLOCK_T1, BLOCK_T2, BLOCK_U1, BLOCK_U2}
BlockDumps(blocks) == { Join(bs, <<"\n", "\n">>) : bs \in SeqsUpTo(blocks, MaxBlocks) }

----------------------------------------------------------------------------
(* Table.parse, one iteration of its loop at a time *)

IdleColumn == lineA = <<>> /\ lineB = <<>> /\ colA = None /\ colB = None
                /\ cmp = None /\ cpc = "idle"
IdleTable  == block = <<>> /\ lines = <<>> /\ pos = 0 /\ table = None
                /\ tpc = "idle" /\ texc = "none"
IdleMain   == srcText = <<>> /\ dstText = <<>> /\ opts = None /\ src = None
                /\ dst = None /\ grid = None /\ stdout = <<>> /\ pc = "idle"

InitTable ==
    /\ block \in TableBlocks
    /\ lines = <<>> /\ pos = 0 /\ table = None /\ tpc = "call" /\ texc = "none"

\* table = Table(sql); lines = sql.split('\n')
TableParseCall ==
    /\ tpc = "call"
    /\ table' = NewTable(block)
    /\ lines' = Split(block, <<"\n">>)
    /\ pos' = 1
    /\ tpc' = "loop"
    /\ UNCHANGED <<block, texc>>

\* one iteration of: for line in lines
TableParseLine ==
    /\ tpc = "loop"
    /\ pos <= Len(lines)
    /\ \E r \in {TableLine(table, lines[pos])} :
           /\ table' = r.val
           /\ texc' = r.exc
           /\ tpc' = IF r.exc # "none" THEN "raised"
                     ELSE IF r.brk THEN "check"
                     ELSE "loop"
           /\ pos' = IF r.exc = "none" /\ ~r.brk THEN pos + 1 ELSE pos
    /\ UNCHANGED <<block, lines>>

\* the loop runs out of lines
TableParseLoopEnd ==
    /\ tpc = "loop"
    /\ pos > Len(lines)
    /\ tpc' = "check"
    /\ UNCHANGED <<block, lines, pos, table, texc>>

\* if not table.name: raise ValueError(...); return table
TableParseReturn ==
    /\ tpc = "check"
    /\ \E r \in {TableCheck(table)} :
           /\ texc' = r.exc
           /\ tpc' = IF r.exc = "none" THEN "returned" ELSE "raised"
    /\ UNCHANGED <<block, lines, pos, table>>

----------------------------------------------------------------------------
(* main *)

Modes == [drop : BOOLEAN, alter : BOOLEAN]

InitMain ==
    /\ srcText \in BlockDumps(SourceBlocks)
    /\ dstText \in BlockDumps(DestinationBlocks)
    /\ opts \in Modes
    /\ src = None /\ dst = None
    /\ grid = None
    /\ stdout = <<>>
    /\ pc = "start"

\* schemaA = Schema.parse(opts['<source.sql>'])
ParseSource ==
    /\ pc = "start"
    /\ \E r \in {SchemaParse(srcText, SOURCE_SQL)} :
           /\ src' = r
           /\ pc' = IF r.exc = "none" THEN "parsedA" ELSE "crashed"
    /\ UNCHANGED <<srcText, dstText, opts, dst, grid, stdout>>

\* schemaB = Schema.parse(opts['<destination.sql>'])
ParseDestination ==
    /\ pc = "parsedA"
    /\ \E r \in {SchemaParse(dstText, DESTINATION_SQL)} :
           /\ dst' = r
           /\ pc' = IF r.exc = "none" THEN "parsedB" ELSE "crashed"
    /\ UNCHANGED <<srcText, dstText, opts, src, grid, stdout>>

\* diff.print_tables(): the header and the rows the writer receives
MainPrintTables ==
    /\ pc = "parsedB"
    /\ ~opts.drop /\ ~opts.alter
    /\ \E tord \in Orders(TableUnion(src.val, dst.val)) :
       \E cords \in OrdersBy(BothTables(src.val, dst.val),
                             LAMBDA t : ColumnUnion(src.val, dst.val, t)) :
            grid' = [header |-> TRUE, rows |-> PrintTables(src.val, dst.val, tord, cords)]
    /\ pc' = "done"
    /\ UNCHANGED <<srcText, dstText, opts, src, dst, stdout>>

\* the two comment lines printed before the statements
MainPrintComments ==
    /\ pc = "parsedB"
    /\ opts.drop \/ opts.alter
    /\ stdout' = << <<"/", "*", " ", "G", "e", "n", "e", "r", "a", "t", "e", "d", " ", "b",
                      "y", " ", "s", "q", "l", "d", "i", "f", "f", ".", " ", "*", "/">>,
                    <<"/", "*", " ", "T", "o", " ", "b", "e", " ", "r", "u", "n", " ", "o",
                      "n", " ">> \o dst.val.name \o <<" ", "*", "/">> >>
    /\ pc' = "comments"
    /\ UNCHANGED <<srcText, dstText, opts, src, dst, grid>>

\* if opts['--drop-tables']: diff.sql_drop_tables()
MainDropTables ==
    /\ pc = "comments"
    /\ opts.drop
    /\ \E ord \in Orders(DropTableSet(src.val, dst.val)) :
            stdout' = stdout \o SqlDropTables(src.val, dst.val, ord)
    /\ pc' = IF opts.alter THEN "dropped" ELSE "done"
    /\ UNCHANGED <<srcText, dstText, opts, src, dst, grid>>

\* if opts['--alter-tables']: diff.sql_alter_tables()
MainAlterTables ==
    /\ pc = "dropped" \/ (pc = "comments" /\ ~opts.drop)
    /\ opts.alter
    /\ \E tord \in Orders(BothTables(src.val, dst.val)) :
       \E cords \in OrdersBy(BothTables(src.val, dst.val),
                             LAMBDA t : ColumnUnion(src.val, dst.val, t)) :
            stdout' = stdout \o SqlAlterTables(src.val, dst.val, tord, cords)
    /\ pc' = "done"
    /\ UNCHANGED <<srcText, dstText, opts, src, dst, grid>>

----------------------------------------------------------------------------
(* Specifications *)

\* main on two dumps made of whole blocks
Init == IdleColumn /\ IdleTable /\ InitMain
Next ==
    \/ (ParseSource /\ UNCHANGED <<colVars, tabVars>>)
    \/ (ParseDestination /\ UNCHANGED <<colVars, tabVars>>)
    \/ (MainPrintTables /\ UNCHANGED <<colVars, tabVars>>)
    \/ (MainPrintComments /\ UNCHANGED <<colVars, tabVars>>)
    \/ (MainDropTables /\ UNCHANGED <<colVars, tabVars>>)
    \/ (MainAlterTables /\ UNCHANGED <<colVars, tabVars>>)
Spec == Init /\ [][Next]_vars

\* Schema.parse on a dump made of single lines
InitSchema ==
    /\ IdleColumn /\ IdleTable
    /\ srcText \in LineDumps
    /\ dstText = <<>> /\ opts = None /\ src = None /\ dst = None
    /\ grid = None /\ stdout = <<>> /\ pc = "start"
NextSchema == ParseSource /\ UNCHANGED <<colVars, tabVars>>
SpecSchema == InitSchema /\ [][NextSchema]_vars

\* Table.parse on a block
InitTableParse == IdleColumn /\ IdleMain /\ InitTable
NextTable ==
    \/ (TableParseCall /\ UNCHANGED <<colVars, mainVars>>)
    \/ (TableParseLine /\ UNCHANGED <<colVars, mainVars>>)
    \/ (TableParseLoopEnd /\ UNCHANGED <<colVars, mainVars>>)
    \/ (TableParseReturn /\ UNCHANGED <<colVars, mainVars>>)
SpecTable == InitTableParse /\ [][NextTable]_vars

\* Column.parse and == on two column lines
InitColumnParse == IdleTable /\ IdleMain /\ InitColumn
NextColumn ==
    \/ (ColumnParseA /\ UNCHANGED <<tabVars, mainVars>>)
    \/ (ColumnParseB /\ UNCHANGED <<tabVars, mainVars>>)
    \/ (ColumnCompare /\ UNCHANGED <<tabVars, mainVars>>)
SpecColumn == InitColumnParse /\ [][NextColumn]_vars

----------------------------------------------------------------------------
(* Claims about Column (checked under SpecColumn) *)

MaxSize == 11

\* str(n) for n >= 0
RECURSIVE Decimal(_)
Decimal(n) == IF n < 10 THEN <<DigitChars[n + 1]>> ELSE Decimal(n \div 10) \o <<DigitChars[(n % 10) + 1]>>

\* C5: a == b holds iff name, type, precision, autoIncrement and nullable match
\* and length matches or the type is datetime; == is reflexive and symmetric
C5_Matches(a, b) ==
    /\ a.name = b.name /\ a.type = b.type /\ a.precision = b.precision
    /\ a.auto = b.auto /\ a.nullable = b.nullable
    /\ (a.length = b.length \/ a.type = Some(DATETIME))
C5_ColumnEquality ==
    cpc = "compared" =>
        /\ cmp.ab = C5_Matches(colA.val, colB.val)
        /\ cmp.ba = cmp.ab
        /\ cmp.aa /\ cmp.bb
\* two datetime columns that differ only in size compare equal, and a datetime
\* has been compared with a column of another type
C5_Witness ==
    /\ cpc = "compared"
    /\ colA.val.type = Some(DATETIME) /\ colB.val.type = Some(DATETIME)
    /\ colA.val.length # colB.val.length
    /\ cmp.ab /\ cmp.ba

\* C6: on a line of at least two tokens Column.parse yields the name (token 0
\* without backquotes), the type, length and precision of the type token T(n),
\* T(n,m) or T, nullable (false exactly when the line contains NOT NULL) and
\* autoIncrement (true exactly when a token after the type token is
\* AUTO_INCREMENT)
C6_Tokens(line) == SplitWs(Strip(line, {" ", ","}))
C6_NoParen(w) == \A i \in DOMAIN w : w[i] \notin {"(", ")", ","}
C6_TypeWords(tk) == {SubSeq(tk, 1, k) : k \in 1..Len(tk)}
C6_Fields(res, type, length, precision) ==
    /\ res.exc = "none"
    /\ res.val.type = Some(type)
    /\ res.val.length = length
    /\ res.val.precision = precision
C6_ColumnParse ==
    (cpc # "start" /\ Len(C6_Tokens(lineA)) >= 2) =>
        LET toks == C6_Tokens(lineA)
            tk   == toks[2]
        IN  /\ colA.exc = "none" =>
                /\ colA.val.name = Some(SelectSeq(toks[1], LAMBDA c : c # BQ))
                /\ colA.val.nullable = Some(~Contains(lineA, NOT_NULL))
                /\ colA.val.auto = (\E i \in 3..Len(toks) : toks[i] = AUTO_INCREMENT)
            /\ \A T \in C6_TypeWords(tk) : \A n \in 0..MaxSize :
                (C6_NoParen(T) /\ tk = T \o <<"(">> \o Decimal(n) \o <<")">>)
                    => C6_Fields(colA, T, Some(n), None)
            /\ \A T \in C6_TypeWords(tk) : \A n, m \in 0..MaxSize :
                (C6_NoParen(T) /\ tk = T \o <<"(">> \o Decimal(n) \o <<",">> \o Decimal(m) \o <<")">>)
                    => C6_Fields(colA, T, Some(n), Some(m))
            /\ C6_NoParen(tk) => C6_Fields(colA, tk, None, None)
\* a decimal(5,2) column with NOT NULL and a trailing AUTO_INCREMENT was parsed
C6_Witness ==
    /\ cpc # "start"
    /\ colA.exc = "none"
    /\ colA.val.length = Some(5) /\ colA.val.precision = Some(2)
    /\ colA.val.auto /\ colA.val.nullable = Some(FALSE)

----------------------------------------------------------------------------
(* Claims about Table.parse (checked under SpecTable) *)

\* the classes of the claim: header, else column (starts with a backquote),
\* else key (contains KEY), else closing (starts with a closing parenthesis)
C10_IsHeader(l)  == HeaderMatch(l)
C10_IsColumn(l)  == ~C10_IsHeader(l) /\ l # <<>> /\ l[1] = BQ
C10_IsKey(l)     == ~C10_IsHeader(l) /\ ~C10_IsColumn(l) /\ Contains(l, KEY)
C10_IsClosing(l) == ~C10_IsHeader(l) /\ ~C10_IsColumn(l) /\ ~C10_IsKey(l)
                        /\ l # <<>> /\ l[1] = ")"
\* the trimmed lines of a block
C10_Lines(b) == LET ls == Split(b, <<"\n">>) IN [i \in DOMAIN ls |-> Strip(ls[i], {" ", ","})]
\* the index of the first closing line of ls (Len(ls) + 1 if none)
C10_FirstClosing(ls) ==
    LET M == {i \in DOMAIN ls : C10_IsClosing(ls[i])}
    IN  IF M = {} THEN Len(ls) + 1 ELSE Min(M)
C10_ColumnName(l) == ColumnParse(l).val.name[1]

\* C10: the lines of a block are handled in order by the priority header >
\* column > key > closing, and nothing after the first closing line changes the
\* table: at every point of the loop and after it, the name is that of the last
\* header line, the columns are those of the column lines (the last line of a
\* name winning) and the keys those of the key lines, among the lines handled
\* so far that precede the first closing line
C10_TableOfPrefix ==
    tpc \in {"loop", "check", "returned"} =>
        LET ls   == C10_Lines(block)
            last == Min({pos, C10_FirstClosing(ls)}) - 1
            P    == 1..last
            H    == {i \in P : C10_IsHeader(ls[i])}
            C    == {i \in P : C10_IsColumn(ls[i])}
            K    == {i \in P : C10_IsKey(ls[i])}
            col  == [i \in C |-> ColumnParse(ls[i]).val]
        IN  /\ table.name = IF H = {} THEN None ELSE Some(HeaderName(ls[Max(H)]))
            /\ DOMAIN table.columns = {col[i].name[1] : i \in C}
            /\ \A n \in DOMAIN table.columns :
                  table.columns[n] = col[Max({i \in C : col[i].name[1] = n})]
            /\ DOMAIN table.keys = IF K = {} THEN {} ELSE {None}
            /\ \A k \in DOMAIN table.keys : table.keys[k].sql = ls[Max(K)]
\* Table.parse returned a table with a column, and a column line of another
\* name follows the first closing line
C10_Witness ==
    /\ tpc = "returned"
    /\ DOMAIN table.columns # {}
    /\ LET ls == C10_Lines(block)
       IN  \E i \in DOMAIN ls :
             /\ i > C10_FirstClosing(ls)
             /\ C10_IsColumn(ls[i])
             /\ C10_ColumnName(ls[i]) \notin DOMAIN table.columns

----------------------------------------------------------------------------
(* Claims about Schema.parse (checked under SpecSchema) *)

\* the trimmed lines of each block of the dump
SP_Blocks(sql) == LET bs == TableSplit(sql) IN [i \in DOMAIN bs |-> C10_Lines(bs[i])]
\* a column line that Table.parse hands to Column.parse and that it rejects
SP_Malformed(ls, i) ==
    /\ i < C10_FirstClosing(ls)
    /\ C10_IsColumn(ls[i])
    /\ ColumnParse(ls[i]).exc # "none"
\* every column line of the dump is well formed
SP_WellFormed(sql) ==
    LET bs == SP_Blocks(sql)
    IN  \A b \in DOMAIN bs : \A i \in DOMAIN bs[b] :
            C10_IsColumn(bs[b][i]) => ColumnParse(bs[b][i]).exc = "none"

\* C7: a malformed column line inside a block is never recovered: Schema.parse
\* returns no Schema
C7_MalformedColumnAborts ==
    (pc \in {"parsedA", "crashed"}
        /\ \E b \in DOMAIN SP_Blocks(srcText) :
             \E i \in DOMAIN SP_Blocks(srcText)[b] : SP_Malformed(SP_Blocks(srcText)[b], i))
    => src.exc # "none"

\* the header lines of a block, and those reached before a closing line
C8_Headers(ls)    == {i \in DOMAIN ls : C10_IsHeader(ls[i])}
C8_Recognized(ls) == {i \in C8_Headers(ls) : i < C10_FirstClosing(ls)}
\* the mapping of a dump whose blocks are named by name(_), a block without a
\* name contributing nothing and the last block of a name winning
C8_Mapping(sql, named(_), name(_)) ==
    LET raw == TableSplit(sql)
        bs  == SP_Blocks(sql)
        N   == {b \in DOMAIN bs : named(bs[b])}
    IN  /\ src.exc = "none"
        /\ DOMAIN src.val.tables = {name(bs[b]) : b \in N}
        /\ \A n \in DOMAIN src.val.tables :
              LET b == Max({c \in N : name(bs[c]) = n})
              IN  /\ TableParse(raw[b]).exc = "none"
                  /\ src.val.tables[n] = TableParse(raw[b]).val

\* C8 as stated: on a dump whose column lines are all well formed, the names
\* of the mapping are those of the blocks that contain a header line
C8_Original ==
    (pc \in {"parsedA", "crashed"} /\ SP_WellFormed(srcText)) =>
        C8_Mapping(srcText,
                   LAMBDA ls : C8_Headers(ls) # {},
                   LAMBDA ls : HeaderName(ls[Max(C8_Headers(ls))]))

\* C8 as amended: on a dump whose column lines are all well formed, the names of
\* the mapping are those of the blocks in which a header line comes before the
\* first closing line (the name of a block being that of its last such header
\* line); a block without one contributes nothing and does not stop the parsing
\* of the blocks after it; the last block of a name wins
C8_RecognizedHeaders ==
    (pc \in {"parsedA", "crashed"} /\ SP_WellFormed(srcText)) =>
        C8_Mapping(srcText,
                   LAMBDA ls : C8_Recognized(ls) # {},
                   LAMBDA ls : HeaderName(ls[Max(C8_Recognized(ls))]))
\* a first block whose only header line follows a closing line was skipped, and
\* a later block gave a table
C8_Witness ==
    /\ pc = "parsedA"
    /\ SP_WellFormed(srcText)
    /\ LET bs == SP_Blocks(srcText)
       IN  /\ Len(bs) >= 2
           /\ C8_Headers(bs[1]) # {} /\ C8_Recognized(bs[1]) = {}
           /\ C8_Recognized(bs[Len(bs)]) # {}
    /\ DOMAIN src.val.tables # {}

----------------------------------------------------------------------------
(* Claims about the diff (checked under Spec) *)

GridDone  == pc = "done" /\ ~opts.drop /\ ~opts.alter
AlterDone == pc = "done" /\ opts.alter
DropDone  == pc \in {"dropped", "done"} /\ opts.drop

SrcTables == DOMAIN src.val.tables
DstTables == DOMAIN dst.val.tables
SrcCols(t) == src.val.tables[t].columns
DstCols(t) == dst.val.tables[t].columns

\* the number of times x occurs in the sequence q
Count(q, x) == Cardinality({i \in DOMAIN q : q[i] = x})
\* '---- <NAME UPPERCASED> ----'
Banner(t) == <<"-", "-", "-", "-", " ">> \o Upper(t) \o <<" ", "-", "-", "-", "-">>
\* the lines of stdout that start with p
LinesWith(p) == SelectSeq(stdout, LAMBDA l : Len(l) >= Len(p) /\ SubSeq(l, 1, Len(p)) = p)

\* C1: in the grid (left = source, right = destination) a table only in the
\* source gives exactly one row [banner, ""] and a table only in the
\* destination exactly one row ["", banner]
C1_OneSidedTables ==
    GridDone =>
        /\ \A t \in SrcTables \ DstTables : Count(grid.rows, <<Banner(t), <<>> >>) = 1
        /\ \A t \in DstTables \ SrcTables : Count(grid.rows, << <<>>, Banner(t)>>) = 1

\* the columns of table t, present in both schemas, that are exclusive or unequal
C2_Differing(t) ==
    {c \in (DOMAIN SrcCols(t)) \cup (DOMAIN DstCols(t)) :
        \/ c \notin DOMAIN SrcCols(t)
        \/ c \notin DOMAIN DstCols(t)
        \/ ~C5_Matches(SrcCols(t)[c], DstCols(t)[c])}
\* the row of the claim for a differing column c of table t
C2_Row(t, c) ==
    IF c \notin DOMAIN DstCols(t) THEN <<SrcCols(t)[c].sql, <<>> >>
    ELSE IF c \notin DOMAIN SrcCols(t) THEN << <<>>, DstCols(t)[c].sql>>
    ELSE <<SrcCols(t)[c].sql, DstCols(t)[c].sql>>
\* the rows the claim allows for table t, present in both schemas: none when
\* no column differs, else the banner row followed by one row per differing column
C2_Segments(t) ==
    IF C2_Differing(t) = {} THEN {<<>>}
    ELSE { << <<Banner(src.val.tables[t].name[1]), Banner(dst.val.tables[t].name[1])>> >>
                \o [i \in DOMAIN o |-> C2_Row(t, o[i])] : o \in Orders(C2_Differing(t)) }
\* a table present in one schema only gives one row (what it holds is C1's matter)
C2_OneRow == { <<grid.rows[i]>> : i \in DOMAIN grid.rows }
C2_Allowed(t) == IF t \in SrcTables \cap DstTables THEN C2_Segments(t) ELSE C2_OneRow

\* C2: for a table present in both schemas the grid holds no row when the two
\* tables have the same column names and all pairs of columns are equal;
\* otherwise one banner row first, then exactly one row per exclusive or
\* unequal column: the grid is, table after table in some order, such a
\* segment for each table present in both schemas
C2_PrintColumns ==
    GridDone =>
        LET tables == SrcTables \cup DstTables
        IN  \E tord \in Orders(tables) :
            \E seg \in [tables -> UNION {C2_Allowed(t) : t \in tables}] :
                /\ \A t \in tables : seg[t] \in C2_Allowed(t)
                /\ grid.rows = Concat([i \in DOMAIN tord |-> seg[tord[i]]])
\* one table of both schemas gave a banner and three rows (a column only in the
\* source, one only in the destination, one unequal, one equal); another, whose
\* column differs in text only, gave none
C2_Witness ==
    /\ GridDone
    /\ Cardinality(SrcTables \cap DstTables) = 2
    /\ Len(grid.rows) = 4
    /\ \E t \in SrcTables \cap DstTables :
         /\ C2_Differing(t) = {}
         /\ \E c \in DOMAIN SrcCols(t) : SrcCols(t)[c].sql # DstCols(t)[c].sql
    /\ \E t \in SrcTables \cap DstTables :
         /\ \E c \in C2_Differing(t) : c \notin DOMAIN DstCols(t)
         /\ \E c \in C2_Differing(t) : c \notin DOMAIN SrcCols(t)
         /\ \E c \in C2_Differing(t) : c \in (DOMAIN SrcCols(t)) \cap (DOMAIN DstCols(t))
         /\ C2_Differing(t) # (DOMAIN SrcCols(t)) \cup (DOMAIN DstCols(t))

\* the statements of the claim for the tables present in both schemas
C3_Statements ==
    UNION { { IF c \notin DOMAIN DstCols(t)
                 THEN AddColumnStmt(dst.val.tables[t].name[1], SrcCols(t)[c].sql)
              ELSE IF c \notin DOMAIN SrcCols(t)
                 THEN DropColumnStmt(dst.val.tables[t].name[1], c)
              ELSE ModifyColumnStmt(dst.val.tables[t].name[1], SrcCols(t)[c].sql)
              : c \in C2_Differing(t) }
            : t \in SrcTables \cap DstTables }

\* C3: alter-tables mode prints exactly, each once: for every table present in
\* both schemas, ADD COLUMN <source text> for a column only in the source, DROP
\* COLUMN <name> for a column only in the destination, MODIFY COLUMN <source
\* text> for a column in both but unequal, each naming the destination table;
\* nothing for an equal column, and nothing for a table present in one schema only
C3_AlterTables ==
    AlterDone =>
        LET alters == LinesWith(ALTER_TABLE)
        IN  /\ {alters[i] : i \in DOMAIN alters} = C3_Statements
            /\ Len(alters) = Cardinality(C3_Statements)
            /\ Len(stdout) = 2 + Len(alters)
                    + (IF opts.drop THEN Cardinality(DstTables \ SrcTables) ELSE 0)
\* an ADD, a DROP and a MODIFY were printed for a table of both schemas, while
\* another table is in one schema only
C3_Witness ==
    /\ AlterDone
    /\ Len(LinesWith(ALTER_TABLE)) = 3
    /\ \E t \in SrcTables \cap DstTables :
         /\ \E c \in C2_Differing(t) : c \notin DOMAIN DstCols(t)
         /\ \E c \in C2_Differing(t) : c \notin DOMAIN SrcCols(t)
         /\ \E c \in C2_Differing(t) : c \in (DOMAIN SrcCols(t)) \cap (DOMAIN DstCols(t))
    /\ SrcTables \ DstTables # {}

\* C4: drop-tables mode prints exactly one DROP TABLE statement for each table
\* of the destination that is not in the source, and none for a table of the
\* source
C4_DropTables ==
    DropDone =>
        /\ \A t \in SrcTables \cup DstTables :
              Count(stdout, DropTableStmt(t)) = IF t \in DstTables \ SrcTables THEN 1 ELSE 0
        /\ Len(LinesWith(<<"D", "R", "O", "P", " ", "T", "A", "B", "L", "E">>))
              = Cardinality(DstTables \ SrcTables)
\* a table only in the destination was dropped while the source has a table
\* that the destination has too
C4_Witness ==
    /\ DropDone
    /\ DstTables \ SrcTables # {}
    /\ SrcTables \cap DstTables # {}
    /\ \E t \in DstTables \ SrcTables : Count(stdout, DropTableStmt(t)) = 1

\* C9: diffing a dump against itself gives no row after the header in the
\* grid, no DROP TABLE statement and no ALTER TABLE statement
C9_SelfDiff ==
    (pc = "done" /\ srcText = dstText) =>
        IF ~opts.drop /\ ~opts.alter
        THEN grid.header /\ grid.rows = <<>>
        ELSE Len(stdout) = 2
\* the same dump, with two tables, went through drop-tables and alter-tables
C9_Witness ==
    /\ pc = "done" /\ srcText = dstText
    /\ opts.drop /\ opts.alter
    /\ Cardinality(SrcTables) = 2
    /\ \A t \in SrcTables : DOMAIN SrcCols(t) # {}

====
